---------------------------- MODULE Spec2Model ----------------------------
(***************************************************************************)
(* The MPU-6050 driver of src/MPU6050.py: one device handle on an SMBus,   *)
(* the register map of the device, the word read with its sign extension,  *)
(* the range/scale resolution and the measurement methods.                 *)
(*                                                                         *)
(* Floating-point results are kept as exact fractions in lowest terms, so  *)
(* two results are the same number exactly when they are equal.            *)
(***************************************************************************)
EXTENDS Integers, Sequences, FiniteSets, TLC

VARIABLES
    regs,       \* the device's register file: register address -> byte
    address,    \* self.address of the handle
    python,     \* major version of the interpreter running the module
    op,         \* the method called last
    arg,        \* its argument (FALSE when it takes none)
    ret,        \* what it returned
    trace,      \* the bus transactions it issued, in order
    out,        \* the lines it printed
    exc,        \* the exception it raised, "none" when it returned
    requested,  \* history: range last asked of set_*_range, -1 before any
    pc,         \* threads sharing the bus: the line each one is about to run
    loc         \* threads sharing the bus: each one's local variables

vars == <<regs, address, python, op, arg, ret, trace, out, exc, requested, pc, loc>>

---------------------------------------------------------------------------
(* Class constants, lines 11-59 *)

ACCEL_RANGE_2G == 0
ACCEL_RANGE_4G == 8
ACCEL_RANGE_8G == 16
ACCEL_RANGE_16G == 24

GYRO_RANGE_250DEG == 0
GYRO_RANGE_500DEG == 8
GYRO_RANGE_1000DEG == 16
GYRO_RANGE_2000DEG == 24

PWR_MGMT_1 == 107
PWR_MGMT_2 == 108

ACCEL_XOUT0 == 59
ACCEL_XOUT1 == 60
ACCEL_YOUT0 == 61
ACCEL_YOUT1 == 62
ACCEL_ZOUT0 == 63
ACCEL_ZOUT1 == 64

TEMP_OUT0 == 65
TEMP_OUT1 == 66

GYRO_XOUT0 == 67
GYRO_XOUT1 == 68
GYRO_YOUT0 == 69
GYRO_YOUT1 == 70
GYRO_ZOUT0 == 71
GYRO_ZOUT1 == 72

ACCEL_CONFIG == 28
GYRO_CONFIG == 27

RECURSIVE GCD(_, _)
GCD(a, b) == IF b = 0 THEN a ELSE GCD(b, a % b)

Abs(n) == IF n < 0 THEN -n ELSE n

\* the number n/d * 9.80665^e in lowest terms, d > 0: products by the
\* gravitational constant are kept as a power, every other operation is exact
Float(n, d, e) ==
    LET k == GCD(Abs(n), Abs(d))
        s == IF d < 0 THEN -1 ELSE 1
    IN  [num |-> (s * n) \div k, den |-> (s * d) \div k, grav |-> e]

Rat(n, d) == Float(n, d, 0)
RatMul(a, b) == Float(a.num * b.num, a.den * b.den, a.grav + b.grav)
RatAdd(a, b) == Float(a.num * b.den + b.num * a.den, a.den * b.den, a.grav)

GRAVITIY_MS2 == Float(1, 1, 1)

ACCEL_SCALE_MODIFIER_2G == Rat(16384, 1)
ACCEL_SCALE_MODIFIER_4G == Rat(8192, 1)
ACCEL_SCALE_MODIFIER_8G == Rat(4096, 1)
ACCEL_SCALE_MODIFIER_16G == Rat(2048, 1)

GYRO_SCALE_MODIFIER_250DEG == Rat(1310, 10)
GYRO_SCALE_MODIFIER_500DEG == Rat(655, 10)
GYRO_SCALE_MODIFIER_1000DEG == Rat(328, 10)
GYRO_SCALE_MODIFIER_2000DEG == Rat(164, 10)

AccelRanges == {ACCEL_RANGE_2G, ACCEL_RANGE_4G, ACCEL_RANGE_8G, ACCEL_RANGE_16G}
GyroRanges == {GYRO_RANGE_250DEG, GYRO_RANGE_500DEG, GYRO_RANGE_1000DEG, GYRO_RANGE_2000DEG}

\* what bus.read_byte_data can return
Byte == 0 .. 255

Registers == {GYRO_CONFIG, ACCEL_CONFIG, PWR_MGMT_1, PWR_MGMT_2} \cup (ACCEL_XOUT0 .. GYRO_ZOUT1)

\* the registers a 16-bit output starts at
WordRegisters == {ACCEL_XOUT0, ACCEL_YOUT0, ACCEL_ZOUT0, TEMP_OUT0, GYRO_XOUT0, GYRO_YOUT0, GYRO_ZOUT0}

\* the interpreters that run the module unchanged
PythonMajor == {2, 3}

---------------------------------------------------------------------------
(* Python arithmetic *)

\* a / b with a float operand
FloatDiv(a, b) == Float(a.num * b.den, a.den * b.num, a.grav - b.grav)

\* a / b with both operands int: floor division under Python 2, true
\* division under Python 3
IntDiv(a, b, py) == IF py = 2 THEN Rat(a \div b, 1) ELSE Rat(a, b)

---------------------------------------------------------------------------
(* The bus: smbus.SMBus(1), line 13 *)

Txn(kind, addr, register, value) ==
    [kind |-> kind, addr |-> addr, reg |-> register, val |-> value]

read_byte_data(r, addr, register) ==
    [val |-> r[register], trace |-> <<Txn("read", addr, register, r[register])>>]

write_byte_data(r, addr, register, value) ==
    [regs |-> [r EXCEPT ![register] = value],
     trace |-> <<Txn("write", addr, register, value)>>]

---------------------------------------------------------------------------
(* The methods. Each yields the registers it leaves, the transactions it   *)
(* issued, what it returned, what it printed and what it raised.           *)

Result(r, t, v, o, e) == [regs |-> r, trace |-> t, ret |-> v, out |-> o, exc |-> e]

__init__(r, addr) ==
    LET w == write_byte_data(r, addr, PWR_MGMT_1, 0)
    IN  Result(w.regs, w.trace, "None", <<>>, "none")

SignExtendOnesComplement(value) == IF value >= 32768 THEN -(65535 - value) ELSE value

SignExtend(value) == IF value >= 32768 THEN -((65535 - value) + 1) ELSE value

\* lines 74-79; high << 8 is high * 2^8, Python's integers do not overflow
Word(high, low) == SignExtend((high * 256) + low)

read_i2c_word(r, addr, register) ==
    LET high == read_byte_data(r, addr, register)
        low == read_byte_data(r, addr, register + 1)
    IN  Result(r, high.trace \o low.trace, Word(high.val, low.val), <<>>, "none")

get_temp(r, addr, py) ==
    LET rawTemp == read_i2c_word(r, addr, TEMP_OUT0)
        actualTemp == RatAdd(IntDiv(rawTemp.ret, 340, py), Rat(3653, 100))
    IN  Result(r, rawTemp.trace, actualTemp, <<>>, "none")

AccelClearOmitted(r, addr) == [regs |-> r, trace |-> <<>>]

\* line 98
AccelClear(r, addr) == write_byte_data(r, addr, ACCEL_CONFIG, 0)

AccelWriteGyroConfig(r, addr, accelRange) == write_byte_data(r, addr, GYRO_CONFIG, accelRange)

\* line 101
AccelWrite(r, addr, accelRange) == write_byte_data(r, addr, ACCEL_CONFIG, accelRange)

set_accel_range(r, addr, accelRange) ==
    LET w1 == AccelClear(r, addr)
        w2 == AccelWrite(w1.regs, addr, accelRange)
    IN  Result(w2.regs, w1.trace \o w2.trace, "None", <<>>, "none")

AccelRangeValue(rawData) ==
    IF rawData = ACCEL_RANGE_2G THEN 2
    ELSE IF rawData = ACCEL_RANGE_4G THEN 4
    ELSE IF rawData = ACCEL_RANGE_8G THEN 8
    ELSE IF rawData = ACCEL_RANGE_16G THEN 16
    ELSE -1

\* raw is True or False in every call modelled
read_accel_range(r, addr, raw) ==
    LET rawData == read_byte_data(r, addr, ACCEL_CONFIG)
    IN  Result(r, rawData.trace,
               IF raw THEN rawData.val ELSE AccelRangeValue(rawData.val),
               <<>>, "none")

AccelKnown(accelRange) == accelRange \in AccelRanges

AccelScaleModifierFixed(accelRange) == ACCEL_SCALE_MODIFIER_2G

AccelScaleModifierFallback16G(accelRange) ==
    IF accelRange = ACCEL_RANGE_2G THEN ACCEL_SCALE_MODIFIER_2G
    ELSE IF accelRange = ACCEL_RANGE_4G THEN ACCEL_SCALE_MODIFIER_4G
    ELSE IF accelRange = ACCEL_RANGE_8G THEN ACCEL_SCALE_MODIFIER_8G
    ELSE ACCEL_SCALE_MODIFIER_16G

AccelScaleModifier(accelRange) ==
    IF accelRange = ACCEL_RANGE_2G THEN ACCEL_SCALE_MODIFIER_2G
    ELSE IF accelRange = ACCEL_RANGE_4G THEN ACCEL_SCALE_MODIFIER_4G
    ELSE IF accelRange = ACCEL_RANGE_8G THEN ACCEL_SCALE_MODIFIER_8G
    ELSE IF accelRange = ACCEL_RANGE_16G THEN ACCEL_SCALE_MODIFIER_16G
    ELSE ACCEL_SCALE_MODIFIER_2G

AccelDiagnostic(accelRange) ==
    IF AccelKnown(accelRange) THEN <<>>
    ELSE <<"Unkown range - accelScaleModifier set to self.ACCEL_SCALE_MODIFIER_2G">>

AccelScaled(x, y, z, accelScaleModifier, g) ==
    LET xs == FloatDiv(Rat(x, 1), accelScaleModifier)
        ys == FloatDiv(Rat(y, 1), accelScaleModifier)
        zs == FloatDiv(Rat(z, 1), accelScaleModifier)
    IN  IF g THEN [x |-> xs, y |-> ys, z |-> zs]
        ELSE [x |-> RatMul(xs, GRAVITIY_MS2),
              y |-> RatMul(ys, GRAVITIY_MS2),
              z |-> RatMul(zs, GRAVITIY_MS2)]

get_accel_data(r, addr, g) ==
    LET x == read_i2c_word(r, addr, ACCEL_XOUT0)
        y == read_i2c_word(r, addr, ACCEL_YOUT0)
        z == read_i2c_word(r, addr, ACCEL_ZOUT0)
        accelRange == read_accel_range(r, addr, TRUE)
        accelScaleModifier == AccelScaleModifier(accelRange.ret)
    IN  Result(r, x.trace \o y.trace \o z.trace \o accelRange.trace,
               AccelScaled(x.ret, y.ret, z.ret, accelScaleModifier, g),
               AccelDiagnostic(accelRange.ret), "none")

\* line 164
GyroClear(r, addr) == write_byte_data(r, addr, GYRO_CONFIG, 0)

GyroWriteAccelConfig(r, addr, gyroRange) == write_byte_data(r, addr, ACCEL_CONFIG, gyroRange)

\* line 167
GyroWrite(r, addr, gyroRange) == write_byte_data(r, addr, GYRO_CONFIG, gyroRange)

set_gyro_range(r, addr, gyroRange) ==
    LET w1 == GyroClear(r, addr)
        w2 == GyroWrite(w1.regs, addr, gyroRange)
    IN  Result(w2.regs, w1.trace \o w2.trace, "None", <<>>, "none")

GyroRangeValueMasked(rawData) ==
    LET fs_sel == (rawData \div 8) % 4
    IN  IF fs_sel = 0 THEN 250
        ELSE IF fs_sel = 1 THEN 500
        ELSE IF fs_sel = 2 THEN 1000
        ELSE 2000

GyroRangeValue(rawData) ==
    IF rawData = GYRO_RANGE_250DEG THEN 250
    ELSE IF rawData = GYRO_RANGE_500DEG THEN 500
    ELSE IF rawData = GYRO_RANGE_1000DEG THEN 1000
    ELSE IF rawData = GYRO_RANGE_2000DEG THEN 2000
    ELSE -1

read_gyro_range(r, addr, raw) ==
    LET rawData == read_byte_data(r, addr, GYRO_CONFIG)
    IN  Result(r, rawData.trace,
               IF raw THEN rawData.val ELSE GyroRangeValue(rawData.val),
               <<>>, "none")

GyroKnown(gyroRange) == gyroRange \in GyroRanges

GyroScaleModifier(gyroRange) ==
    IF gyroRange = GYRO_RANGE_250DEG THEN GYRO_SCALE_MODIFIER_250DEG
    ELSE IF gyroRange = GYRO_RANGE_500DEG THEN GYRO_SCALE_MODIFIER_500DEG
    ELSE IF gyroRange = GYRO_RANGE_1000DEG THEN GYRO_SCALE_MODIFIER_1000DEG
    ELSE IF gyroRange = GYRO_RANGE_2000DEG THEN GYRO_SCALE_MODIFIER_2000DEG
    ELSE GYRO_SCALE_MODIFIER_250DEG

GyroDiagnostic(gyroRange) ==
    IF GyroKnown(gyroRange) THEN <<>>
    ELSE <<"Unkown range - gyroScaleModifier set to self.GYRO_SCALE_MODIFIER_250DEG">>

get_gyro_data_range_first(r, addr) ==
    LET gyroRange == read_gyro_range(r, addr, TRUE)
        x == read_i2c_word(r, addr, GYRO_XOUT0)
        y == read_i2c_word(r, addr, GYRO_YOUT0)
        z == read_i2c_word(r, addr, GYRO_ZOUT0)
        gyroScaleModifier == GyroScaleModifier(gyroRange.ret)
    IN  Result(r, gyroRange.trace \o x.trace \o y.trace \o z.trace,
               [x |-> FloatDiv(Rat(x.ret, 1), gyroScaleModifier),
                y |-> FloatDiv(Rat(y.ret, 1), gyroScaleModifier),
                z |-> FloatDiv(Rat(z.ret, 1), gyroScaleModifier)],
               GyroDiagnostic(gyroRange.ret), "none")

get_gyro_data(r, addr) ==
    LET x == read_i2c_word(r, addr, GYRO_XOUT0)
        y == read_i2c_word(r, addr, GYRO_YOUT0)
        z == read_i2c_word(r, addr, GYRO_ZOUT0)
        gyroRange == read_gyro_range(r, addr, TRUE)
        gyroScaleModifier == GyroScaleModifier(gyroRange.ret)
    IN  Result(r, x.trace \o y.trace \o z.trace \o gyroRange.trace,
               [x |-> FloatDiv(Rat(x.ret, 1), gyroScaleModifier),
                y |-> FloatDiv(Rat(y.ret, 1), gyroScaleModifier),
                z |-> FloatDiv(Rat(z.ret, 1), gyroScaleModifier)],
               GyroDiagnostic(gyroRange.ret), "none")

\* line 220 calls the global name get_temp, which the module never binds:
\* the lookup raises NameError before any bus transaction
get_all_data(r, addr) == Result(r, <<>>, "None", <<>>, "NameError")

---------------------------------------------------------------------------
(* Register contents the runs start from *)

HighByte(v) == (v % 65536) \div 256
LowByte(v) == v % 256

\* raw samples <<accel x, y, z, temperature, gyro x, y, z>> latched in the
\* output registers
SampleTable ==
    << <<16384, -16384, 0, 340, 131, -131, 0>>,
       <<1, -1, 32767, -1, -32768, 655, 1>>,
       <<-32768, 4096, -2048, 12000, 164, 32767, -328>>,
       <<8192, 0, -1, -12000, 0, -1, 1310>> >>

\* how many of them the runs start from
NumSamples == 2

Samples == {SampleTable[i] : i \in 1 .. NumSamples}

\* configuration bytes: the four encodings, and bytes with other bits set
CfgSamples == AccelRanges \cup {1, 232}

\* the device as it powers up: asleep, at its reset values
ResetRegs == [a \in Registers |-> IF a = PWR_MGMT_1 THEN 64 ELSE 0]

Latched(s, accelCfg, gyroCfg) ==
    [a \in Registers |->
        IF a = ACCEL_CONFIG THEN accelCfg
        ELSE IF a = GYRO_CONFIG THEN gyroCfg
        ELSE IF a \in WordRegisters THEN HighByte(s[((a - ACCEL_XOUT0) \div 2) + 1])
        ELSE IF a - 1 \in WordRegisters THEN LowByte(s[((a - ACCEL_XOUT0) \div 2) + 1])
        ELSE ResetRegs[a]]

\* the words currently in the output registers, as the driver decodes them
Raw(r, register) == Word(r[register], r[register + 1])

---------------------------------------------------------------------------
(* One caller: every method runs to completion before the next is called *)

Returned(name, a, res) ==
    /\ regs' = res.regs
    /\ op' = name
    /\ arg' = a
    /\ ret' = res.ret
    /\ trace' = res.trace
    /\ out' = res.out
    /\ exc' = res.exc
    /\ UNCHANGED <<address, python, pc, loc>>

\* mpu = MPU6050(0x68), line 227, on a device holding r0
Constructed(r0, py) ==
    LET res == __init__(r0, 104)
    IN  /\ regs = res.regs
        /\ address = 104
        /\ python = py
        /\ op = "__init__"
        /\ arg = 104
        /\ ret = res.ret
        /\ trace = res.trace
        /\ out = res.out
        /\ exc = res.exc
        /\ requested = [accel |-> -1, gyro |-> -1]
        /\ pc = [t \in {"setter", "reader"} |-> "idle"]
        /\ loc = [t \in {"setter", "reader"} |-> [op |-> "none"]]

Init ==
    \E s \in Samples, a \in CfgSamples, g \in CfgSamples, py \in PythonMajor :
        Constructed(Latched(s, a, g), py)

ReadI2cWord ==
    \E register \in WordRegisters :
        /\ Returned("read_i2c_word", register, read_i2c_word(regs, address, register))
        /\ UNCHANGED requested

GetTemp ==
    /\ Returned("get_temp", FALSE, get_temp(regs, address, python))
    /\ UNCHANGED requested

SetAccelRange ==
    \E accelRange \in AccelRanges :
        /\ Returned("set_accel_range", accelRange, set_accel_range(regs, address, accelRange))
        /\ requested' = [requested EXCEPT !.accel = accelRange]

ReadAccelRange ==
    \E raw \in BOOLEAN :
        /\ Returned("read_accel_range", raw, read_accel_range(regs, address, raw))
        /\ UNCHANGED requested

GetAccelData ==
    \E g \in BOOLEAN :
        /\ Returned("get_accel_data", g, get_accel_data(regs, address, g))
        /\ UNCHANGED requested

SetGyroRange ==
    \E gyroRange \in GyroRanges :
        /\ Returned("set_gyro_range", gyroRange, set_gyro_range(regs, address, gyroRange))
        /\ requested' = [requested EXCEPT !.gyro = gyroRange]

ReadGyroRange ==
    \E raw \in BOOLEAN :
        /\ Returned("read_gyro_range", raw, read_gyro_range(regs, address, raw))
        /\ UNCHANGED requested

GetGyroData ==
    /\ Returned("get_gyro_data", FALSE, get_gyro_data(regs, address))
    /\ UNCHANGED requested

GetAllData ==
    /\ Returned("get_all_data", FALSE, get_all_data(regs, address))
    /\ UNCHANGED requested

Next ==
    \/ ReadI2cWord
    \/ GetTemp
    \/ SetAccelRange
    \/ ReadAccelRange
    \/ GetAccelData
    \/ SetGyroRange
    \/ ReadGyroRange
    \/ GetGyroData
    \/ GetAllData

Spec == Init /\ [][Next]_vars

---------------------------------------------------------------------------
(* The word read and the temperature over every pair of bytes *)

InitWord ==
    \E high \in Byte, low \in Byte, py \in PythonMajor :
        Constructed([ResetRegs EXCEPT ![TEMP_OUT0] = high, ![TEMP_OUT1] = low], py)

ReadTempWord ==
    /\ Returned("read_i2c_word", TEMP_OUT0, read_i2c_word(regs, address, TEMP_OUT0))
    /\ UNCHANGED requested

NextWord ==
    \/ ReadTempWord
    \/ GetTemp

SpecWord == InitWord /\ [][NextWord]_vars

---------------------------------------------------------------------------
(* The range queries and the measurements over every configuration byte *)

InitRange ==
    \E s \in Samples, a \in Byte, g \in Byte, py \in PythonMajor :
        /\ a \in AccelRanges \/ g \in GyroRanges
        /\ Constructed(Latched(s, a, g), py)

NextRange ==
    \/ ReadAccelRange
    \/ GetAccelData
    \/ ReadGyroRange
    \/ GetGyroData

SpecRange == InitRange /\ [][NextRange]_vars

---------------------------------------------------------------------------
(* Two threads on the one handle and bus, with no lock: "setter" calls     *)
(* set_accel_range, "reader" calls read_accel_range(True) or               *)
(* get_accel_data. A bus transaction is one ioctl and is atomic; the       *)
(* interpreter may switch threads between any two of them. pc names the    *)
(* source line a thread is about to run.                                   *)

Sequential == UNCHANGED <<address, python, op, arg, ret, trace, out, exc, requested>>

\* the accelerometer output bytes, in the order lines 129-131 read them
AccelBytes == <<ACCEL_XOUT0, ACCEL_XOUT1, ACCEL_YOUT0, ACCEL_YOUT1, ACCEL_ZOUT0, ACCEL_ZOUT1>>

InitConc ==
    \E s \in Samples, a \in AccelRanges, py \in PythonMajor :
        Constructed(Latched(s, a, GYRO_RANGE_250DEG), py)

SetterCall ==
    \E accelRange \in AccelRanges :
        /\ pc["setter"] = "idle"
        /\ pc' = [pc EXCEPT !["setter"] = "98"]
        /\ loc' = [loc EXCEPT !["setter"] =
                      [op |-> "set_accel_range", accelRange |-> accelRange,
                       before |-> regs[ACCEL_CONFIG]]]
        /\ UNCHANGED regs
        /\ Sequential

SetterClear ==
    /\ pc["setter"] = "98"
    /\ regs' = AccelClear(regs, address).regs
    /\ pc' = [pc EXCEPT !["setter"] = "101"]
    /\ UNCHANGED loc
    /\ Sequential

SetterWrite ==
    /\ pc["setter"] = "101"
    /\ regs' = AccelWrite(regs, address, loc["setter"].accelRange).regs
    /\ pc' = [pc EXCEPT !["setter"] = "idle"]
    /\ UNCHANGED loc
    /\ Sequential

\* what the reader's read of the configuration register found the setter
\* doing (history)
Seen == [pc |-> pc["setter"], call |-> loc["setter"]]

ReaderCallRange ==
    /\ pc["reader"] = "idle"
    /\ pc' = [pc EXCEPT !["reader"] = "108"]
    /\ loc' = [loc EXCEPT !["reader"] = [op |-> "read_accel_range", raw |-> TRUE]]
    /\ UNCHANGED regs
    /\ Sequential

ReaderRange ==
    /\ pc["reader"] = "108"
    /\ LET rawData == read_byte_data(regs, address, ACCEL_CONFIG)
       IN  loc' = [loc EXCEPT !["reader"] =
                      [op |-> "read_accel_range", raw |-> TRUE,
                       ret |-> rawData.val, seen |-> Seen]]
    /\ pc' = [pc EXCEPT !["reader"] = "idle"]
    /\ UNCHANGED regs
    /\ Sequential

ReaderCallData ==
    \E g \in BOOLEAN :
        /\ pc["reader"] = "idle"
        /\ pc' = [pc EXCEPT !["reader"] = "129"]
        /\ loc' = [loc EXCEPT !["reader"] = [op |-> "get_accel_data", g |-> g, bytes |-> <<>>]]
        /\ UNCHANGED regs
        /\ Sequential

ReaderByte ==
    /\ pc["reader"] = "129"
    /\ LET got == loc["reader"].bytes
           byte == read_byte_data(regs, address, AccelBytes[Len(got) + 1])
       IN  /\ loc' = [loc EXCEPT !["reader"].bytes = Append(got, byte.val)]
           /\ pc' = [pc EXCEPT !["reader"] = IF Len(got) + 1 = Len(AccelBytes) THEN "134" ELSE "129"]
    /\ UNCHANGED regs
    /\ Sequential

ReaderScale ==
    /\ pc["reader"] = "134"
    /\ LET b == loc["reader"].bytes
           accelRange == read_byte_data(regs, address, ACCEL_CONFIG)
           accelScaleModifier == AccelScaleModifier(accelRange.val)
       IN  loc' = [loc EXCEPT !["reader"] =
                      [op |-> "get_accel_data", g |-> loc["reader"].g,
                       ret |-> AccelScaled(Word(b[1], b[2]), Word(b[3], b[4]), Word(b[5], b[6]),
                                           accelScaleModifier, loc["reader"].g),
                       out |-> AccelDiagnostic(accelRange.val),
                       seen |-> Seen]]
    /\ pc' = [pc EXCEPT !["reader"] = "idle"]
    /\ UNCHANGED regs
    /\ Sequential

NextConc ==
    \/ SetterCall
    \/ SetterClear
    \/ SetterWrite
    \/ ReaderCallRange
    \/ ReaderRange
    \/ ReaderCallData
    \/ ReaderByte
    \/ ReaderScale

SpecConc == InitConc /\ [][NextConc]_vars

---------------------------------------------------------------------------
(* Properties *)

RECURSIVE BitOr(_, _)
BitOr(a, b) ==
    IF a = 0 THEN b
    ELSE IF b = 0 THEN a
    ELSE (IF a % 2 = 1 \/ b % 2 = 1 THEN 1 ELSE 0) + 2 * BitOr(a \div 2, b \div 2)

\* C1: for every pair of bytes high, low in the registers addr and addr+1,
\* read_i2c_word(addr) returns v = (high << 8) | low when v < 0x8000 and
\* v - 0x10000 otherwise: the 16-bit two's-complement value, in -32768..32767.
C1_SignedWord ==
    op = "read_i2c_word" =>
        LET v == BitOr(regs[arg] * 256, regs[arg + 1])
        IN  /\ exc = "none"
            /\ ret = IF v < 32768 THEN v ELSE v - 65536
            /\ ret \in -32768 .. 32767

C1_Witness ==
    /\ op = "read_i2c_word"
    /\ regs[arg] = 128
    /\ regs[arg + 1] = 0
    /\ ret = -32768

\* C2: get_all_data invokes each of get_temp, get_accel_data, get_gyro_data
\* exactly once, completes without error, and returns [accel, gyro, temp],
\* each the value the method itself returns on the same registers.
C2_AllData ==
    op = "get_all_data" =>
        LET temp == get_temp(regs, address, python)
            accel == get_accel_data(regs, address, FALSE)
            gyro == get_gyro_data(regs, address)
        IN  /\ exc = "none"
            /\ ret = <<accel.ret, gyro.ret, temp.ret>>
            /\ trace = temp.trace \o accel.trace \o gyro.trace

\* C3: set_accel_range(R) followed by read_accel_range(raw=True), no other
\* write to the bus in between, returns the encoding R, whatever the register
\* held before.
C3_RoundTrip ==
    (op = "read_accel_range" /\ arg = TRUE /\ requested.accel # -1) =>
        (exc = "none" /\ ret = requested.accel)

C3_Witness ==
    /\ op = "read_accel_range"
    /\ arg = TRUE
    /\ requested.accel = ACCEL_RANGE_16G
    /\ ret = 24

ConfigOf(name) == IF name = "get_accel_data" THEN ACCEL_CONFIG ELSE GYRO_CONFIG
AxisOf(name) ==
    IF name = "get_accel_data" THEN ACCEL_XOUT0 .. ACCEL_ZOUT1 ELSE GYRO_XOUT0 .. GYRO_ZOUT1
At(t, rs) == {i \in 1 .. Len(t) : t[i].kind = "read" /\ t[i].reg \in rs}

\* C4 as stated: a measurement call reads the configuration register exactly
\* once and before every axis output register.
C4_RangeFirst ==
    op \in {"get_accel_data", "get_gyro_data"} =>
        /\ Cardinality(At(trace, {ConfigOf(op)})) = 1
        /\ \A i \in At(trace, {ConfigOf(op)}), j \in At(trace, AxisOf(op)) : i < j

\* C4 amended: a measurement call reads the six axis output registers first
\* (X, Y, Z, high byte then low byte) and the configuration register exactly
\* once, after all of them; it issues nothing else.
C4_RangeLast ==
    op \in {"get_accel_data", "get_gyro_data"} =>
        /\ Len(trace) = 7
        /\ \A i \in 1 .. 7 : trace[i].kind = "read" /\ trace[i].addr = address
        /\ \A i \in 1 .. 6 : trace[i].reg = CHOOSE a \in AxisOf(op) : Cardinality({b \in AxisOf(op) : b < a}) = i - 1
        /\ trace[7].reg = ConfigOf(op)
        /\ Cardinality(At(trace, {ConfigOf(op)})) = 1
        /\ \A i \in At(trace, {ConfigOf(op)}), j \in At(trace, AxisOf(op)) : j < i

C4_Witness ==
    /\ op = "get_gyro_data"
    /\ Len(trace) = 7
    /\ trace[1].reg = GYRO_XOUT0
    /\ trace[7].reg = GYRO_CONFIG

\* the scale the claims pair with each encoding
AccelDivisor(b) == CASE b = 0 -> 16384 [] b = 8 -> 8192 [] b = 16 -> 4096 [] b = 24 -> 2048
GyroTenths(b) == CASE b = 0 -> 1310 [] b = 8 -> 655 [] b = 16 -> 328 [] b = 24 -> 164

AccelExpected(r, m, g) ==
    [a \in {"x", "y", "z"} |->
        Float(Raw(r, CASE a = "x" -> ACCEL_XOUT0 [] a = "y" -> ACCEL_YOUT0 [] a = "z" -> ACCEL_ZOUT0),
              m, IF g THEN 0 ELSE 1)]
GyroExpected(r, tenths) ==
    [a \in {"x", "y", "z"} |->
        Float(10 * Raw(r, CASE a = "x" -> GYRO_XOUT0 [] a = "y" -> GYRO_YOUT0 [] a = "z" -> GYRO_ZOUT0),
              tenths, 0)]
SameNumbers(v, w) == \A a \in {"x", "y", "z"} : v[a] = w[a]

\* C5: after any sequence of set_accel_range and get_accel_data calls, each
\* get_accel_data divides X, Y and Z by one modifier, the one paired with the
\* byte the configuration register holds at that call (0x00 -> 16384,
\* 0x08 -> 8192, 0x10 -> 4096, 0x18 -> 2048): a range change shows in the
\* very next call.
C5_LiveScale ==
    op = "get_accel_data" =>
        /\ Cardinality(At(trace, {ACCEL_CONFIG})) = 1
        /\ \E m \in {16384, 8192, 4096, 2048} : SameNumbers(ret, AccelExpected(regs, m, arg))
        /\ regs[ACCEL_CONFIG] \in AccelRanges =>
              SameNumbers(ret, AccelExpected(regs, AccelDivisor(regs[ACCEL_CONFIG]), arg))

C5_Witness ==
    /\ op = "get_accel_data"
    /\ arg = TRUE
    /\ requested.accel = ACCEL_RANGE_8G
    /\ Raw(regs, ACCEL_ZOUT0) = 32767
    /\ ret.z = [num |-> 32767, den |-> 4096, grav |-> 0]

\* C6: for every byte in the configuration register a measurement call
\* returns; for a byte outside the four encodings it uses the smallest-range
\* modifier (16384, 131) and prints one diagnostic, and it prints none
\* otherwise.
C6_Fallback ==
    /\ op = "get_accel_data" =>
          /\ exc = "none"
          /\ regs[ACCEL_CONFIG] \notin {0, 8, 16, 24} =>
                (SameNumbers(ret, AccelExpected(regs, 16384, arg)) /\ Len(out) = 1)
          /\ regs[ACCEL_CONFIG] \in {0, 8, 16, 24} => out = <<>>
    /\ op = "get_gyro_data" =>
          /\ exc = "none"
          /\ regs[GYRO_CONFIG] \notin {0, 8, 16, 24} =>
                (SameNumbers(ret, GyroExpected(regs, 1310)) /\ Len(out) = 1)
          /\ regs[GYRO_CONFIG] \in {0, 8, 16, 24} => out = <<>>

C6_Witness ==
    /\ op = "get_accel_data"
    /\ arg = TRUE
    /\ regs[ACCEL_CONFIG] = 25
    /\ Len(out) = 1
    /\ Raw(regs, ACCEL_XOUT0) = 16384
    /\ ret.x = [num |-> 1, den |-> 1, grav |-> 0]

\* C7: for every byte b in the configuration register, read_accel_range(False)
\* returns 2, 4, 8, 16 and read_gyro_range(False) returns 250, 500, 1000, 2000
\* for b = 0x00, 0x08, 0x10, 0x18, and -1 for every other b, never raising.
C7_RangeValue ==
    /\ (op = "read_accel_range" /\ arg = FALSE) =>
          /\ exc = "none"
          /\ ret = CASE regs[ACCEL_CONFIG] = 0 -> 2 [] regs[ACCEL_CONFIG] = 8 -> 4
                     [] regs[ACCEL_CONFIG] = 16 -> 8 [] regs[ACCEL_CONFIG] = 24 -> 16
                     [] OTHER -> -1
    /\ (op = "read_gyro_range" /\ arg = FALSE) =>
          /\ exc = "none"
          /\ ret = CASE regs[GYRO_CONFIG] = 0 -> 250 [] regs[GYRO_CONFIG] = 8 -> 500
                     [] regs[GYRO_CONFIG] = 16 -> 1000 [] regs[GYRO_CONFIG] = 24 -> 2000
                     [] OTHER -> -1

C7_Witness ==
    /\ op = "read_gyro_range"
    /\ arg = FALSE
    /\ regs[GYRO_CONFIG] = 9
    /\ ret = -1

\* C8: for every raw temperature sample, get_temp returns raw/340 + 36.53
\* with raw/340 the real quotient: 340 * (result - 36.53) = raw.
\* With result = num/den: 17 * (100 * num - 3653 * den) = 5 * raw * den.
C8_RealDivision ==
    op = "get_temp" =>
        /\ exc = "none"
        /\ ret.grav = 0
        /\ 17 * (100 * ret.num - 3653 * ret.den) = 5 * Raw(regs, TEMP_OUT0) * ret.den

\* C9: with no lock, a read of the accelerometer configuration register that
\* falls between the two writes of a concurrent set_accel_range finds 0x00:
\* read_accel_range(True) returns 0x00 and get_accel_data scales by 16384,
\* whatever range was set before and whatever range is being set.
C9_Intermediate ==
    (pc["reader"] = "idle" /\ loc["reader"].op # "none" /\ loc["reader"].seen.pc = "101") =>
        IF loc["reader"].op = "read_accel_range"
        THEN loc["reader"].ret = 0
        ELSE SameNumbers(loc["reader"].ret, AccelExpected(regs, 16384, loc["reader"].g))

C9_Witness ==
    /\ pc["reader"] = "idle"
    /\ loc["reader"].op = "read_accel_range"
    /\ loc["reader"].ret = 0
    /\ loc["reader"].seen.pc = "101"
    /\ loc["reader"].seen.call.before # 0
    /\ loc["reader"].seen.call.accelRange # 0

C9_WitnessData ==
    /\ pc["reader"] = "idle"
    /\ loc["reader"].op = "get_accel_data"
    /\ loc["reader"].g
    /\ loc["reader"].seen.pc = "101"
    /\ loc["reader"].seen.call.before = ACCEL_RANGE_16G
    /\ loc["reader"].seen.call.accelRange = ACCEL_RANGE_8G
    /\ Raw(regs, ACCEL_XOUT0) = 16384
    /\ loc["reader"].ret.x = [num |-> 1, den |-> 1, grav |-> 0]

=============================================================================
